---------------------------- MODULE Spec2Model ----------------------------
(***************************************************************************)
(* Model of vulkano's image dimension arithmetic (image/mod.rs) and of the *)
(* buffer<->image copy validation (command_buffer/validity/               *)
(* copy_image_buffer.rs).                                                  *)
(*                                                                         *)
(* Every function of the two files is pure, so a behaviour is one call:   *)
(* Init draws the build profile and the arguments of the call, the action *)
(* named after the function evaluates it and stores what it returns.      *)
(*                                                                         *)
(* u32 is modelled as a WordBits-bit unsigned word and usize as a word of *)
(* twice that width (a 64-bit target).  Arithmetic on them follows Rust:  *)
(* an overflowing +, * panics when the build has overflow checks (debug)  *)
(* and wraps modulo 2^width when it has not (release).                    *)
(***************************************************************************)
EXTENDS Integers, Sequences, FiniteSets, TLC

VARIABLES
    build,  \* "debug" (debug assertions and overflow checks on) or "release"
    call,   \* the call being made: [fn |-> name, ...arguments...]
    ret     \* Pending until the call has returned or panicked, then its outcome

vars == <<build, call, ret>>

----------------------------------------------------------------------------
(* Machine words *)

\* Number of bits of the model's u32.
WordBits == 4

\* u32 values are 0 .. Modulus - 1.
Modulus == 2 ^ WordBits

\* usize values are 0 .. UsizeModulus - 1.
UsizeModulus == 2 ^ (2 * WordBits)

U32 == 0 .. (Modulus - 1)

U32_MAX == Modulus - 1

Builds == {"debug", "release"}

Pending == [kind |-> "pending"]

Panic == [kind |-> "panic"]

\* A number a u32 expression evaluated to.
Value(n) == [kind |-> "value", value |-> n]

\* `x + y` on u32.
add(b, x, y) ==
    IF x + y < Modulus THEN Value(x + y)
    ELSE IF b = "debug" THEN Panic
    ELSE Value((x + y) % Modulus)

\* `x * y` on u32.
mul(b, x, y) ==
    IF x * y < Modulus THEN Value(x * y)
    ELSE IF b = "debug" THEN Panic
    ELSE Value((x * y) % Modulus)

\* A shift by one bit, whatever the count.
shr_by_one(x, n) == x \div 2

\* `x >> n` on u32, for n below the word width.
shr(x, n) == x \div (2 ^ n)

RECURSIVE bitor(_, _)
\* `x | y` on u32.
bitor(x, y) ==
    IF x = 0 THEN y
    ELSE IF y = 0 THEN x
    ELSE (IF x % 2 = 1 \/ y % 2 = 1 THEN 1 ELSE 0) + 2 * bitor(x \div 2, y \div 2)

RECURSIVE significant_bits(_)
significant_bits(x) == IF x = 0 THEN 0 ELSE 1 + significant_bits(x \div 2)

\* u32::leading_zeros
leading_zeros(x) == WordBits - significant_bits(x)

\* cmp::max left out: the second argument as it is.
max_without_floor(x, y) == y

\* cmp::max
max(x, y) == IF y >= x THEN y ELSE x

----------------------------------------------------------------------------
(* ImageDimensions *)

Dim1d(w, l) == [variant |-> "Dim1d", width |-> w, array_layers |-> l]

Dim2d(w, h, l) == [variant |-> "Dim2d", width |-> w, height |-> h, array_layers |-> l]

Dim3d(w, h, d) == [variant |-> "Dim3d", width |-> w, height |-> h, depth |-> d]

width(self) == self.width

height(self) == IF self.variant = "Dim1d" THEN 1 ELSE self.height

depth(self) == IF self.variant = "Dim3d" THEN self.depth ELSE 1

array_layers(self) == IF self.variant = "Dim3d" THEN 1 ELSE self.array_layers

\* `width * height * depth * array_layers` on u32, multiplied left to right.
num_texels(b, self) ==
    LET p1 == mul(b, width(self), height(self)) IN
    IF p1 = Panic THEN Panic
    ELSE LET p2 == mul(b, p1.value, depth(self)) IN
         IF p2 = Panic THEN Panic ELSE mul(b, p2.value, array_layers(self))

\* max_mipmaps looking at the width alone.
max_mipmaps_of_width(self) == WordBits - leading_zeros(width(self))

max_mipmaps(self) ==
    WordBits - leading_zeros(bitor(bitor(width(self), height(self)), depth(self)))

Some(v) == [kind |-> "Some", value |-> v]

None == [kind |-> "None"]

mipmap_dimensions(b, self, level) ==
    IF level = 0 THEN Some(self)
    ELSE IF level >= max_mipmaps(self) THEN None
    ELSE IF self.variant = "Dim1d" THEN
        IF b = "debug" /\ self.width = 0 THEN Panic
        ELSE Some(Dim1d(max(1, shr(self.width, level)), self.array_layers))
    ELSE IF self.variant = "Dim2d" THEN
        IF b = "debug" /\ (self.width = 0 \/ self.height = 0) THEN Panic
        ELSE Some(Dim2d(max(1, shr(self.width, level)),
                        max(1, shr(self.height, level)),
                        self.array_layers))
    ELSE
        IF b = "debug" /\ (self.width = 0 \/ self.height = 0) THEN Panic
        ELSE Some(Dim3d(max(1, shr(self.width, level)),
                        max(1, shr(self.height, level)),
                        max(1, shr(self.depth, level))))

----------------------------------------------------------------------------
(* Calls of ImageDimensions::mipmap_dimensions *)

\* Largest array_layers value the dimension calls are made with.
MaxLayers == 2

\* Every 1D, 2D and 3D shape over the whole u32 range of each axis.
AllDimensions ==
    {Dim1d(w, l) : w \in U32, l \in 0 .. MaxLayers}
    \cup {Dim2d(w, h, l) : w \in U32, h \in U32, l \in 0 .. MaxLayers}
    \cup {Dim3d(w, h, d) : w \in U32, h \in U32, d \in U32}

\* Levels asked for: every existing level and some beyond the last one.
Levels == 0 .. (WordBits + 1)

InitMip ==
    /\ build \in Builds
    /\ \E d \in AllDimensions, l \in Levels :
          call = [fn |-> "mipmap_dimensions", self |-> d, level |-> l]
    /\ ret = Pending

MipmapDimensions ==
    /\ call.fn = "mipmap_dimensions"
    /\ ret = Pending
    /\ ret' = mipmap_dimensions(build, call.self, call.level)
    /\ UNCHANGED <<build, call>>

NextMip == MipmapDimensions

SpecMip == InitMip /\ [][NextMip]_vars


----------------------------------------------------------------------------
(* required_len_for_format *)

\* `x - y` on u32.
sub(b, x, y) ==
    IF x >= y THEN Value(x - y)
    ELSE IF b = "debug" THEN Panic
    ELSE Value((x - y) % Modulus)

\* `(size + block - 1) / block` on u32, evaluated left to right.
blocks_along(b, size, block) ==
    LET s == add(b, size, block) IN
    IF s = Panic THEN Panic
    ELSE LET t == sub(b, s.value, 1) IN
         IF t = Panic THEN Panic ELSE Value(t.value \div block)

\* The u32 product `blocks_x * blocks_y * image_size[2] * image_num_layers`.
num_blocks(b, format, image_size, image_num_layers) ==
    LET block_width == format.block_dimensions[1]
        block_height == format.block_dimensions[2]
        bx == blocks_along(b, image_size[0], block_width)
        by == blocks_along(b, image_size[1], block_height)
    IN  IF bx = Panic \/ by = Panic THEN Panic
        ELSE LET p1 == mul(b, bx.value, by.value) IN
             IF p1 = Panic THEN Panic
             ELSE LET p2 == mul(b, p1.value, image_size[2]) IN
                  IF p2 = Panic THEN Panic
                  ELSE mul(b, p2.value, image_num_layers)

\* `x * y` on usize.
mul_usize(b, x, y) ==
    IF x * y < UsizeModulus THEN Value(x * y)
    ELSE IF b = "debug" THEN Panic
    ELSE Value((x * y) % UsizeModulus)

required_len_for_format(b, format, image_size, image_num_layers) ==
    LET n == num_blocks(b, format, image_size, image_num_layers) IN
    IF n = Panic THEN Panic ELSE mul_usize(b, n.value, format.rate)

----------------------------------------------------------------------------
(* check_copy_buffer_image *)

Ok == [kind |-> "Ok"]

Err(e) == [kind |-> "Err", error |-> e]

BufferTooSmall(required, actual) ==
    [kind |-> "Err", error |-> "BufferTooSmall",
     required_len |-> required, actual_len |-> actual]

\* The two assert_eq! on the devices hold.
same_device(device, buffer, image) ==
    buffer.device = device /\ image.device = device

\* check_usage reading, for each direction, the flags of the other one.
check_usage_other_direction(buffer, image, ty) ==
    IF ty = "ImageToBuffer" THEN
        IF ~buffer.usage_transfer_source THEN Err("SourceMissingTransferUsage")
        ELSE IF ~image.usage.transfer_destination
             THEN Err("DestinationMissingTransferUsage")
        ELSE Ok
    ELSE
        IF ~image.usage.transfer_source THEN Err("SourceMissingTransferUsage")
        ELSE IF ~buffer.usage_transfer_destination
             THEN Err("DestinationMissingTransferUsage")
        ELSE Ok

\* The match on ty: the error it returns, or Ok when it falls through.
check_usage(buffer, image, ty) ==
    IF ty = "BufferToImage" THEN
        IF ~buffer.usage_transfer_source THEN Err("SourceMissingTransferUsage")
        ELSE IF ~image.usage.transfer_destination
             THEN Err("DestinationMissingTransferUsage")
        ELSE Ok
    ELSE
        IF ~image.usage.transfer_source THEN Err("SourceMissingTransferUsage")
        ELSE IF ~buffer.usage_transfer_destination
             THEN Err("DestinationMissingTransferUsage")
        ELSE Ok

check_samples(image) ==
    IF image.samples # 1 THEN Err("UnexpectedMultisampled") ELSE Ok

\* `lo + len > limit` on u32: the error, Ok, or the panic of the addition.
check_range(b, lo, len, limit) ==
    LET s == add(b, lo, len) IN
    IF s = Panic THEN Panic
    ELSE IF s.value > limit THEN Err("ImageCoordinatesOutOfRange")
    ELSE Ok

check_layers(b, image_dimensions, image_first_layer, image_num_layers) ==
    check_range(b, image_first_layer, image_num_layers, array_layers(image_dimensions))

check_width(b, image_dimensions, image_offset, image_size) ==
    check_range(b, image_offset[0], image_size[0], width(image_dimensions))

check_height(b, image_dimensions, image_offset, image_size) ==
    check_range(b, image_offset[1], image_size[1], height(image_dimensions))

check_depth(b, image_dimensions, image_offset, image_size) ==
    check_range(b, image_offset[2], image_size[2], depth(image_dimensions))

\* image.format().ensure_accepts()?
check_pixels(image) ==
    IF image.format.accepts THEN Ok ELSE Err("WrongPixelType")

\* check_capacity rejecting a buffer of exactly the required length.
check_capacity_strict(b, buffer, image, image_size, image_num_layers) ==
    LET required_len ==
            required_len_for_format(b, image.format, image_size, image_num_layers)
    IN  IF required_len = Panic THEN Panic
        ELSE IF required_len.value >= buffer.len
             THEN BufferTooSmall(required_len.value, buffer.len)
        ELSE Ok

check_capacity(b, buffer, image, image_size, image_num_layers) ==
    LET required_len ==
            required_len_for_format(b, image.format, image_size, image_num_layers)
    IN  IF required_len = Panic THEN Panic
        ELSE IF required_len.value > buffer.len
             THEN BufferTooSmall(required_len.value, buffer.len)
        ELSE Ok

\* Lines 87-118: the checks made on the resolved mip level.
check_region(b, buffer, image, d, image_offset, image_size, image_first_layer, image_num_layers) ==
    LET layers == check_layers(b, d, image_first_layer, image_num_layers)
        w == check_width(b, d, image_offset, image_size)
        h == check_height(b, d, image_offset, image_size)
        dp == check_depth(b, d, image_offset, image_size)
    IN  IF layers # Ok THEN layers
        ELSE IF w # Ok THEN w
        ELSE IF h # Ok THEN h
        ELSE IF dp # Ok THEN dp
        ELSE IF check_pixels(image) # Ok THEN check_pixels(image)
        ELSE check_capacity(b, buffer, image, image_size, image_num_layers)

\* check_copy_buffer_image looking at the sample count before the usage.
check_copy_buffer_image_samples_first(b, device, buffer, image, ty, image_offset, image_size, image_first_layer, image_num_layers, image_mipmap) ==
    IF ~same_device(device, buffer, image) THEN Panic
    ELSE IF check_samples(image) # Ok THEN check_samples(image)
    ELSE IF check_usage(buffer, image, ty) # Ok THEN check_usage(buffer, image, ty)
    ELSE LET m == mipmap_dimensions(b, image.dimensions, image_mipmap) IN
         IF m = Panic THEN Panic
         ELSE IF m = None THEN Err("ImageCoordinatesOutOfRange")
         ELSE check_region(b, buffer, image, m.value, image_offset, image_size,
                           image_first_layer, image_num_layers)

check_copy_buffer_image(b, device, buffer, image, ty, image_offset, image_size, image_first_layer, image_num_layers, image_mipmap) ==
    IF ~same_device(device, buffer, image) THEN Panic
    ELSE IF check_usage(buffer, image, ty) # Ok THEN check_usage(buffer, image, ty)
    ELSE IF check_samples(image) # Ok THEN check_samples(image)
    ELSE LET m == mipmap_dimensions(b, image.dimensions, image_mipmap) IN
         IF m = Panic THEN Panic
         ELSE IF m = None THEN Err("ImageCoordinatesOutOfRange")
         ELSE check_region(b, buffer, image, m.value, image_offset, image_size,
                           image_first_layer, image_num_layers)

----------------------------------------------------------------------------
(* Calls of required_len_for_format *)

Format(bw, bh, r, a) ==
    [block_dimensions |-> <<bw, bh>>, rate |-> r, accepts |-> a]

\* A [u32; 3], indexed from 0.
Vec3(x, y, z) == [i \in 0 .. 2 |-> IF i = 0 THEN x ELSE IF i = 1 THEN y ELSE z]

\* Uncompressed formats read as 1, 2 or 4 elements per texel, and
\* block-compressed formats of 2x2 and 4x4 texels.
LenFormats ==
    {Format(1, 1, 1, TRUE), Format(1, 1, 2, TRUE), Format(1, 1, 4, TRUE),
     Format(2, 2, 2, TRUE), Format(4, 4, 8, TRUE)}

\* Depths and layer counts: none, a few, and the largest u32.
Counts == {0, 1, 2, 3, U32_MAX}

InitLen ==
    /\ build \in Builds
    /\ \E f \in LenFormats, s0 \in U32, s1 \in U32, s2 \in Counts, n \in Counts :
          call = [fn |-> "required_len_for_format", format |-> f,
                  image_size |-> Vec3(s0, s1, s2), image_num_layers |-> n]
    /\ ret = Pending

RequiredLenForFormat ==
    /\ call.fn = "required_len_for_format"
    /\ ret = Pending
    /\ ret' = required_len_for_format(build, call.format, call.image_size,
                                      call.image_num_layers)
    /\ UNCHANGED <<build, call>>

NextLen == RequiredLenForFormat

SpecLen == InitLen /\ [][NextLen]_vars

----------------------------------------------------------------------------
(* Calls of check_copy_buffer_image *)

Buffer(dev, src, dst, len) ==
    [device |-> dev, usage_transfer_source |-> src,
     usage_transfer_destination |-> dst, len |-> len]

Image(dev, src, dst, samples, dims, format) ==
    [device |-> dev,
     usage |-> [transfer_source |-> src, transfer_destination |-> dst],
     samples |-> samples, dimensions |-> dims, format |-> format]

CopyCall(device, buffer, image, ty, offset, size, first, num, mip) ==
    [fn |-> "check_copy_buffer_image", device |-> device, buffer |-> buffer,
     image |-> image, ty |-> ty, image_offset |-> offset, image_size |-> size,
     image_first_layer |-> first, image_num_layers |-> num, image_mipmap |-> mip]

Tys == {"BufferToImage", "ImageToBuffer"}

\* A 1D, a 2D and a 3D image with the mip levels 0, 1, 2, and a 2D image
\* whose texel count 8 * 8 does not fit the u32 word.
Images == {Dim1d(4, 2), Dim2d(4, 2, 2), Dim3d(4, 2, 2), Dim2d(8, 8, 1)}

\* An existing level with the full extent, a halved one, and one that does
\* not exist.
Mipmaps == {0, 1, WordBits}

\* An uncompressed format and a block-compressed one.
CopyFormats == {Format(1, 1, 1, TRUE), Format(2, 2, 2, TRUE)}

\* Buffer lengths around the lengths the small regions need.
Lens == 0 .. 4

\* Calls that vary the region, on resources whose usage and sample count
\* pass: offsets and sizes inside the level, past its end, and so large that
\* their u32 sum exceeds U32_MAX.
InitGeometry ==
    \E len \in Lens, d \in Images, f \in CopyFormats, mip \in Mipmaps,
       o0 \in {0, 1, U32_MAX}, s0 \in {1, 2, 8, U32_MAX},
       o1 \in {0, U32_MAX}, s1 \in {1, 8, U32_MAX},
       o2 \in {0, U32_MAX}, s2 \in {1, U32_MAX},
       layers \in {<<0, 1>>, <<0, 2>>, <<1, 2>>, <<U32_MAX, 1>>} :
        call = CopyCall(1, Buffer(1, TRUE, TRUE, len),
                        Image(1, TRUE, TRUE, 1, d, f), "BufferToImage",
                        Vec3(o0, o1, o2), Vec3(s0, s1, s2),
                        layers[1], layers[2], mip)

\* Calls that vary the direction, the four usage flags, the sample count and
\* the pixel type, each with a region that passes and regions that fail a
\* later check.
InitUsage ==
    \E bs \in BOOLEAN, bd \in BOOLEAN, is \in BOOLEAN, id \in BOOLEAN,
       ty \in Tys, samples \in {1, 4}, d \in Images,
       f \in {Format(1, 1, 1, TRUE), Format(1, 1, 1, FALSE)},
       len \in {0, 4}, o0 \in {0, 4}, num \in {1, 3}, mip \in {0, WordBits} :
        call = CopyCall(1, Buffer(1, bs, bd, len),
                        Image(1, is, id, samples, d, f), ty,
                        Vec3(o0, 0, 0), Vec3(1, 1, 1), 0, num, mip)

\* Calls with a buffer or an image of another device than `device`.
InitDevice ==
    \E bdev \in {1, 2}, idev \in {1, 2}, bs \in BOOLEAN, ty \in Tys,
       samples \in {1, 4}, d \in Images :
        call = CopyCall(1, Buffer(bdev, bs, TRUE, 4),
                        Image(idev, TRUE, TRUE, samples, d, Format(1, 1, 1, TRUE)),
                        ty, Vec3(0, 0, 0), Vec3(1, 1, 1), 0, 1, 0)

Init ==
    /\ build \in Builds
    /\ InitGeometry \/ InitUsage \/ InitDevice
    /\ ret = Pending

CheckCopyBufferImage ==
    /\ call.fn = "check_copy_buffer_image"
    /\ ret = Pending
    /\ ret' = check_copy_buffer_image(build, call.device, call.buffer, call.image,
                                      call.ty, call.image_offset, call.image_size,
                                      call.image_first_layer, call.image_num_layers,
                                      call.image_mipmap)
    /\ UNCHANGED <<build, call>>

Next == CheckCopyBufferImage

Spec == Init /\ [][Next]_vars

----------------------------------------------------------------------------
(* Vocabulary of the properties *)

Done == ret # Pending

CopyDone == Done /\ call.fn = "check_copy_buffer_image"

\* The precondition of check_copy_buffer_image: one device for all.
DevicesMatch ==
    call.buffer.device = call.device /\ call.image.device = call.device

SourceMissing ==
    \/ call.ty = "BufferToImage" /\ ~call.buffer.usage_transfer_source
    \/ call.ty = "ImageToBuffer" /\ ~call.image.usage.transfer_source

DestinationMissing ==
    \/ call.ty = "BufferToImage" /\ ~call.image.usage.transfer_destination
    \/ call.ty = "ImageToBuffer" /\ ~call.buffer.usage_transfer_destination

Multisampled == call.image.samples # 1

\* The level the call names, as the dimension model resolves it.
Level == mipmap_dimensions(build, call.image.dimensions, call.image_mipmap)

MipMissing == Level = None

\* Extent of the resolved level on axis i (width, height, depth).
Extent(i) ==
    IF i = 0 THEN width(Level.value)
    ELSE IF i = 1 THEN height(Level.value) ELSE depth(Level.value)

\* The u32 sum x + y as the running build evaluates it: the wrapped sum, or
\* -1 when the addition panics.
SumAsEvaluated(x, y) ==
    IF x + y < Modulus THEN x + y
    ELSE IF build = "debug" THEN -1 ELSE (x + y) - Modulus

LayerSum == SumAsEvaluated(call.image_first_layer, call.image_num_layers)

AxisSum(i) == SumAsEvaluated(call.image_offset[i], call.image_size[i])

\* A check is violated when its comparison, as evaluated, is true; it passes
\* when the comparison is false.  A sum that panics does neither.
LayersViolated == LayerSum > array_layers(Level.value)

LayersPass == LayerSum >= 0 /\ ~LayersViolated

AxisViolated(i) == AxisSum(i) > Extent(i)

AxisPass(i) == AxisSum(i) >= 0 /\ ~AxisViolated(i)

WrongPixels == ~call.image.format.accepts

\* What required_len_for_format returns for the call's region.
RequiredLen ==
    required_len_for_format(build, call.image.format, call.image_size,
                            call.image_num_layers)

\* Every check before the capacity check passes.
ReachesCapacity ==
    /\ DevicesMatch /\ ~SourceMissing /\ ~DestinationMissing /\ ~Multisampled
    /\ Level.kind = "Some"
    /\ LayersPass /\ \A i \in 0 .. 2 : AxisPass(i)
    /\ ~WrongPixels

----------------------------------------------------------------------------
(* C1 *)

UsageOk == ~SourceMissing /\ ~DestinationMissing

\* The call got as far as resolving the mip level, and the level exists.
ReachesRegion == DevicesMatch /\ UsageOk /\ ~Multisampled /\ Level.kind = "Some"

OutOfRange == Err("ImageCoordinatesOutOfRange")

\* C1: the checks are made in the order usage, multisample, mip level, layer
\* range, width, height, depth, pixel type, capacity, and the call returns the
\* error of the first check in that order that is violated, whatever later
\* checks are violated too.
C1_FirstFailureWins ==
    (CopyDone /\ DevicesMatch) =>
        /\ SourceMissing => ret = Err("SourceMissingTransferUsage")
        /\ (~SourceMissing /\ DestinationMissing)
              => ret = Err("DestinationMissingTransferUsage")
        /\ (UsageOk /\ Multisampled) => ret = Err("UnexpectedMultisampled")
        /\ (UsageOk /\ ~Multisampled /\ MipMissing) => ret = OutOfRange
        /\ (ReachesRegion /\ LayersViolated) => ret = OutOfRange
        /\ (ReachesRegion /\ LayersPass /\ AxisViolated(0)) => ret = OutOfRange
        /\ (ReachesRegion /\ LayersPass /\ AxisPass(0) /\ AxisViolated(1))
              => ret = OutOfRange
        /\ (ReachesRegion /\ LayersPass /\ AxisPass(0) /\ AxisPass(1)
            /\ AxisViolated(2)) => ret = OutOfRange
        /\ (ReachesRegion /\ LayersPass /\ (\A i \in 0 .. 2 : AxisPass(i))
            /\ WrongPixels) => ret = Err("WrongPixelType")
        /\ (ReachesCapacity /\ RequiredLen.kind = "value"
            /\ RequiredLen.value > call.buffer.len)
              => (ret.kind = "Err" /\ ret.error = "BufferTooSmall")

\* A call that violates the usage, multisample, mip level, pixel type and
\* capacity checks at once, and returns the error of the usage check.
C1_Witness ==
    /\ CopyDone /\ DevicesMatch
    /\ SourceMissing /\ DestinationMissing /\ Multisampled /\ MipMissing
    /\ WrongPixels /\ call.buffer.len = 0
    /\ ret = Err("SourceMissingTransferUsage")

----------------------------------------------------------------------------
(* C2 *)

\* The call with the two usage flags its direction does not name negated.
OtherFlagsNegated ==
    IF call.ty = "BufferToImage"
    THEN [call EXCEPT !.image.usage.transfer_source = ~@,
                      !.buffer.usage_transfer_destination = ~@]
    ELSE [call EXCEPT !.buffer.usage_transfer_source = ~@,
                      !.image.usage.transfer_destination = ~@]

Returned(c) ==
    check_copy_buffer_image(build, c.device, c.buffer, c.image, c.ty,
                            c.image_offset, c.image_size, c.image_first_layer,
                            c.image_num_layers, c.image_mipmap)

\* C2: for BufferToImage a buffer without transfer-source usage gives
\* SourceMissingTransferUsage, else an image without transfer-destination
\* usage gives DestinationMissingTransferUsage; for ImageToBuffer the image's
\* transfer-source and the buffer's transfer-destination flag are the ones
\* looked at.  The rest of the arguments does not change these results, and
\* the two flags the direction does not name do not change any result.
C2_UsageByDirection ==
    (CopyDone /\ DevicesMatch) =>
        /\ (call.ty = "BufferToImage" /\ ~call.buffer.usage_transfer_source)
              => ret = Err("SourceMissingTransferUsage")
        /\ (call.ty = "BufferToImage" /\ call.buffer.usage_transfer_source
            /\ ~call.image.usage.transfer_destination)
              => ret = Err("DestinationMissingTransferUsage")
        /\ (call.ty = "ImageToBuffer" /\ ~call.image.usage.transfer_source)
              => ret = Err("SourceMissingTransferUsage")
        /\ (call.ty = "ImageToBuffer" /\ call.image.usage.transfer_source
            /\ ~call.buffer.usage_transfer_destination)
              => ret = Err("DestinationMissingTransferUsage")
        /\ ret = Returned(OtherFlagsNegated)

\* A BufferToImage copy of a region that is in range, into an image that
\* lacks transfer-destination usage but has transfer-source usage.
C2_Witness ==
    /\ CopyDone /\ DevicesMatch
    /\ call.ty = "BufferToImage" /\ call.buffer.usage_transfer_source
    /\ ~call.image.usage.transfer_destination /\ call.image.usage.transfer_source
    /\ ~Multisampled /\ Level.kind = "Some" /\ LayersPass
    /\ (\A i \in 0 .. 2 : AxisPass(i)) /\ ~WrongPixels
    /\ RequiredLen.value <= call.buffer.len
    /\ ret = Err("DestinationMissingTransferUsage")

----------------------------------------------------------------------------
(* C3 *)

\* C3: when every check before the capacity check passes and
\* required_len_for_format returns r, a buffer of exactly r elements gives
\* Ok, a buffer of r - 1 elements gives BufferTooSmall { r, r - 1 }, and in
\* general the call fails with BufferTooSmall exactly when r > buffer.len().
C3_CapacityBoundary ==
    (CopyDone /\ ReachesCapacity /\ RequiredLen.kind = "value") =>
        LET r == RequiredLen.value
            len == call.buffer.len
        IN  /\ len = r => ret = Ok
            /\ len = r - 1 => ret = BufferTooSmall(r, len)
            /\ r > len <=> (ret.kind = "Err" /\ ret.error = "BufferTooSmall")
            /\ r > len => (ret.required_len = r /\ ret.actual_len = len)
            /\ r <= len => ret = Ok

\* A buffer of exactly the required length, two or more elements, accepted.
C3_Witness ==
    /\ CopyDone /\ ReachesCapacity /\ RequiredLen.kind = "value"
    /\ RequiredLen.value = call.buffer.len /\ call.buffer.len >= 2
    /\ ret = Ok

\* A buffer one element shorter than required, rejected.
C3_WitnessShort ==
    /\ CopyDone /\ ReachesCapacity /\ RequiredLen.kind = "value"
    /\ RequiredLen.value = call.buffer.len + 1
    /\ ret = BufferTooSmall(call.buffer.len + 1, call.buffer.len)

----------------------------------------------------------------------------
(* C4, C5, C6: the bounds of the region, as sums of natural numbers *)

\* C4: a call that passes the usage, multisample, mip level and layer range
\* checks, and whose image_offset[i] + image_size[i] exceeds the extent of the
\* resolved level on at least one axis i, returns ImageCoordinatesOutOfRange,
\* for all u32 offsets and sizes, sums of 2^32 and more included.  Stated of
\* the calls that return: one that panics returns no error either.
C4_AnyAxisOutOfRange ==
    (/\ CopyDone /\ ReachesRegion /\ LayersPass /\ ret # Panic
     /\ \E i \in 0 .. 2 : call.image_offset[i] + call.image_size[i] > Extent(i))
        => ret = OutOfRange

\* What the code does give: the same, for sums that fit the u32.
C4_WithoutOverflow ==
    (/\ CopyDone /\ ReachesRegion /\ LayersPass
     /\ \A i \in 0 .. 2 : call.image_offset[i] + call.image_size[i] < Modulus
     /\ \E i \in 0 .. 2 : call.image_offset[i] + call.image_size[i] > Extent(i))
        => ret = OutOfRange

\* C5: a call that passes the usage and multisample checks returns
\* ImageCoordinatesOutOfRange when the mip level does not exist, and when it
\* exists and image_first_layer + image_num_layers exceeds its array_layers
\* (the base image's for 1D and 2D, 1 for 3D), for all u32 layer arguments.
\* Stated of the calls that return.
C5_MipAndLayers ==
    (CopyDone /\ DevicesMatch /\ UsageOk /\ ~Multisampled /\ ret # Panic) =>
        /\ MipMissing => ret = OutOfRange
        /\ Level.kind = "Some" =>
            /\ array_layers(Level.value) =
                  (IF call.image.dimensions.variant = "Dim3d" THEN 1
                   ELSE call.image.dimensions.array_layers)
            /\ call.image_first_layer + call.image_num_layers
                  > array_layers(Level.value) => ret = OutOfRange

\* What the code does give: the same, for layer sums that fit the u32.
C5_WithoutOverflow ==
    (/\ CopyDone /\ DevicesMatch /\ UsageOk /\ ~Multisampled
     /\ call.image_first_layer + call.image_num_layers < Modulus) =>
        /\ MipMissing => ret = OutOfRange
        /\ (/\ Level.kind = "Some"
            /\ call.image_first_layer + call.image_num_layers
                  > array_layers(Level.value)) => ret = OutOfRange

\* ceil(x / y)
CeilDiv(x, y) == IF x % y = 0 THEN x \div y ELSE (x \div y) + 1

\* The number of elements the region holds.
ExactLen(format, image_size, image_num_layers) ==
    CeilDiv(image_size[0], format.block_dimensions[1])
    * CeilDiv(image_size[1], format.block_dimensions[2])
    * image_size[2] * image_num_layers * format.rate

ExactRegionLen == ExactLen(call.image.format, call.image_size, call.image_num_layers)

\* The region lies inside the resolved level.
RegionInLevel ==
    /\ Level.kind = "Some"
    /\ call.image_first_layer + call.image_num_layers <= array_layers(Level.value)
    /\ \A i \in 0 .. 2 : call.image_offset[i] + call.image_size[i] <= Extent(i)

\* C6: the call returns Ok exactly when the usage flags of the direction are
\* set, the image has one sample, the mip level exists, the layer range and
\* the three axis ranges lie inside the level, the format accepts the pixel
\* type and required_len_for_format is at most buffer.len(); an Ok result
\* never describes a region outside the level or larger than the buffer.
C6_OkExactlyWhenValid ==
    (CopyDone /\ DevicesMatch) =>
        /\ ret = Ok <=>
            (/\ UsageOk /\ ~Multisampled /\ RegionInLevel /\ ~WrongPixels
             /\ RequiredLen.kind = "value"
             /\ RequiredLen.value <= call.buffer.len)
        /\ ret = Ok => (RegionInLevel /\ ExactRegionLen <= call.buffer.len)

\* What the code does give: Ok exactly when every check, as evaluated, passes.
C6_AsEvaluated ==
    CopyDone =>
        (ret = Ok <=> (/\ ReachesCapacity /\ RequiredLen.kind = "value"
                       /\ RequiredLen.value <= call.buffer.len))

----------------------------------------------------------------------------
(* C7, C8: the required length *)

LenDone == Done /\ call.fn = "required_len_for_format"

\* C7: required_len_for_format returns
\* ceil(size[0] / block_width) * ceil(size[1] / block_height) * size[2]
\* * layers * rate; for 1x1 blocks that is width * height * depth * layers
\* * rate.  Stated of the calls that return.
C7_CeilProduct ==
    (LenDone /\ ret # Panic) =>
        /\ ret = Value(ExactLen(call.format, call.image_size, call.image_num_layers))
        /\ call.format.block_dimensions = <<1, 1>> =>
              ret = Value(call.image_size[0] * call.image_size[1] * call.image_size[2]
                          * call.image_num_layers * call.format.rate)

\* Every u32 term of required_len_for_format stays below 2^32.
FitsWord(format, image_size, image_num_layers) ==
    LET bx == CeilDiv(image_size[0], format.block_dimensions[1])
        by == CeilDiv(image_size[1], format.block_dimensions[2])
    IN  /\ image_size[0] + format.block_dimensions[1] < Modulus
        /\ image_size[1] + format.block_dimensions[2] < Modulus
        /\ bx * by < Modulus
        /\ bx * by * image_size[2] < Modulus
        /\ bx * by * image_size[2] * image_num_layers < Modulus

\* What the code does give: the product, while every u32 term fits the word.
C7_WithoutOverflow ==
    (LenDone /\ FitsWord(call.format, call.image_size, call.image_num_layers))
        => ret = Value(ExactLen(call.format, call.image_size, call.image_num_layers))

\* C8: the length the capacity check compares with buffer.len() is the exact
\* product, never the product modulo 2^32, so the call never accepts a buffer
\* shorter than the region requires.  Stated of the calls that return.
C8_NoWraparound ==
    (CopyDone /\ ReachesCapacity /\ ret # Panic) =>
        /\ RequiredLen = Value(ExactRegionLen)
        /\ ret = Ok => ExactRegionLen <= call.buffer.len

\* A region inside its level whose block count is a multiple of 2^32, in a
\* build without overflow checks: any buffer is accepted.
C8_WrappedToZero ==
    /\ CopyDone /\ DevicesMatch /\ RegionInLevel /\ build = "release"
    /\ call.image_size = Vec3(8, 8, 1) /\ call.buffer.len = 0
    /\ ExactRegionLen = 64
    /\ ret = Ok

----------------------------------------------------------------------------
(* C9, C10: the mip chain *)

MipDone == Done /\ call.fn = "mipmap_dimensions"

AxesAtLeastOne(d) == width(d) >= 1 /\ height(d) >= 1 /\ depth(d) >= 1

RECURSIVE Halved(_, _)
\* x halved l times, rounding down, and never below 1.
Halved(x, l) ==
    IF l = 0 THEN (IF x < 1 THEN 1 ELSE x) ELSE Halved(x \div 2, l - 1)

\* The chain of the 283x175 image of the tests, levels 0 to 8.  The
\* dimension functions do no wrapping arithmetic, and max_mipmaps is the bit
\* length of width | height | depth whatever the width of the word, so they
\* are evaluated on these values as they stand.
Chain283x175 ==
    <<Dim2d(283, 175, 1), Dim2d(141, 87, 1), Dim2d(70, 43, 1), Dim2d(35, 21, 1),
      Dim2d(17, 10, 1), Dim2d(8, 5, 1), Dim2d(4, 2, 1), Dim2d(2, 1, 1),
      Dim2d(1, 1, 1)>>

\* C9: for axes >= 1 and a level l below max_mipmaps(), mipmap_dimensions(l)
\* is Some shape of the same variant whose axes are max(1, axis >> l) and
\* whose array_layers are those of the base; level 0 is the shape itself.
\* The 283x175 chain of the tests is what the function gives at levels 0..8.
C9_LevelDimensions ==
    (MipDone /\ AxesAtLeastOne(call.self) /\ call.level < max_mipmaps(call.self)) =>
        /\ ret.kind = "Some"
        /\ ret.value.variant = call.self.variant
        /\ width(ret.value) = Halved(width(call.self), call.level)
        /\ height(ret.value) = Halved(height(call.self), call.level)
        /\ depth(ret.value) = Halved(depth(call.self), call.level)
        /\ array_layers(ret.value) = array_layers(call.self)
        /\ call.level = 0 => ret.value = call.self
        /\ \A l \in 0 .. 8 :
              mipmap_dimensions(build, Chain283x175[1], l) = Some(Chain283x175[l + 1])

\* An 11x7 image with two layers, whose level 3 is 1x1: the height is kept
\* at 1 by the floor, the layers are kept.
C9_Witness ==
    /\ MipDone
    /\ call.self = Dim2d(11, 7, 2) /\ call.level = 3
    /\ max_mipmaps(call.self) = 4
    /\ ret = Some(Dim2d(1, 1, 2))

\* C10: for every shape and every level l >= max_mipmaps(),
\* mipmap_dimensions(l) is None; a call that returns gives Some exactly when
\* l < max_mipmaps().
C10_NoneBeyondLast ==
    MipDone =>
        /\ call.level >= max_mipmaps(call.self) => ret = None
        /\ ret.kind # "panic" =>
              (ret.kind = "Some" <=> call.level < max_mipmaps(call.self))

\* What the code does give: the same for every shape but the 3D shape
\* 0x0x0, whose max_mipmaps() is 0 and whose level 0 is Some.
C10_ExceptEmpty ==
    (MipDone /\ call.self # Dim3d(0, 0, 0)) =>
        /\ call.level >= max_mipmaps(call.self) => ret = None
        /\ ret.kind # "panic" =>
              (ret.kind = "Some" <=> call.level < max_mipmaps(call.self))

----------------------------------------------------------------------------
(* Calls of ImageDimensions::max_mipmaps and ImageDimensions::num_texels *)

InitDims ==
    /\ build \in Builds
    /\ \E d \in AllDimensions, f \in {"max_mipmaps", "num_texels"} :
          call = [fn |-> f, self |-> d]
    /\ ret = Pending

MaxMipmaps ==
    /\ call.fn = "max_mipmaps"
    /\ ret = Pending
    /\ ret' = Value(max_mipmaps(call.self))
    /\ UNCHANGED <<build, call>>

NumTexels ==
    /\ call.fn = "num_texels"
    /\ ret = Pending
    /\ ret' = num_texels(build, call.self)
    /\ UNCHANGED <<build, call>>

NextDims == MaxMipmaps \/ NumTexels

SpecDims == InitDims /\ [][NextDims]_vars

----------------------------------------------------------------------------
(* C11 *)

MaxDone == Done /\ call.fn = "max_mipmaps"

\* The largest of the three axes.
LargestAxis(d) ==
    LET wh == IF width(d) >= height(d) THEN width(d) ELSE height(d)
    IN  IF wh >= depth(d) THEN wh ELSE depth(d)

\* k = floor(log2(x)) + 1, for x >= 1.
IsLog2Plus1(k, x) == k >= 1 /\ 2 ^ (k - 1) <= x /\ x < 2 ^ k

RECURSIVE HalvingsToOne(_)
\* The number of values met when x >= 1 is halved until it is 1, x included.
HalvingsToOne(x) == IF x <= 1 THEN 1 ELSE 1 + HalvingsToOne(x \div 2)

\* C11: for axes >= 1, max_mipmaps() is floor(log2(max(width, height,
\* depth))) + 1, the number of levels met when the largest axis is halved
\* down to 1, and is at least 1; it is 1 for 1x1x1, 2 for 2x1 and 2x3, 6 for
\* 32x50 and 10 for 512x512.
C11_MaxMipmaps ==
    /\ (MaxDone /\ AxesAtLeastOne(call.self)) =>
          /\ ret.kind = "value"
          /\ IsLog2Plus1(ret.value, LargestAxis(call.self))
          /\ ret.value = HalvingsToOne(LargestAxis(call.self))
          /\ ret.value >= 1
          /\ (LargestAxis(call.self) = 1) => ret.value = 1
    /\ max_mipmaps(Dim2d(2, 1, 1)) = 2
    /\ max_mipmaps(Dim2d(2, 3, 1)) = 2
    /\ max_mipmaps(Dim2d(32, 50, 1)) = 6
    /\ max_mipmaps(Dim2d(512, 512, 1)) = 10

\* A 2x3 image, whose largest axis is not the width and whose axes or to 3:
\* two levels.
C11_Witness ==
    /\ MaxDone
    /\ call.self = Dim2d(2, 3, 1)
    /\ ret = Value(2)

----------------------------------------------------------------------------
(* C12 *)

TexelsDone == Done /\ call.fn = "num_texels"

\* C12: num_texels() is the product width * height * depth * array_layers
\* of natural numbers for every shape, never that product modulo 2^32.
\* Stated of the calls that return.
C12_ExactTexels ==
    (TexelsDone /\ ret # Panic) =>
        ret = Value(width(call.self) * height(call.self) * depth(call.self)
                    * array_layers(call.self))

\* What the code does give: the product, while every partial product fits
\* the u32.
C12_WithoutOverflow ==
    (/\ TexelsDone
     /\ width(call.self) * height(call.self) < Modulus
     /\ width(call.self) * height(call.self) * depth(call.self) < Modulus
     /\ width(call.self) * height(call.self) * depth(call.self)
          * array_layers(call.self) < Modulus) =>
        ret = Value(width(call.self) * height(call.self) * depth(call.self)
                    * array_layers(call.self))

----------------------------------------------------------------------------
(* C13 *)

\* An axis the variant has is 0.
HasZeroAxis(d) ==
    \/ d.width = 0
    \/ d.variant # "Dim1d" /\ d.height = 0
    \/ d.variant = "Dim3d" /\ d.depth = 0

\* C13: in debug mode mipmap_dimensions(level) panics whenever the width,
\* the height or the depth of the shape is 0, at every level.
C13_PanicsOnZeroAxis ==
    (MipDone /\ build = "debug" /\ HasZeroAxis(call.self)) => ret = Panic

\* What the code does give: the panic for a width or height of 0 at the
\* levels 1 <= level < max_mipmaps(), and at no other call.
C13_AsImplemented ==
    MipDone =>
        (ret = Panic <=>
            /\ build = "debug"
            /\ call.self.width = 0 \/ (call.self.variant # "Dim1d" /\ call.self.height = 0)
            /\ 1 <= call.level /\ call.level < max_mipmaps(call.self))

----------------------------------------------------------------------------
(* Chains of mipmap_dimensions calls:                                      *)
(* d.mipmap_dimensions(a).and_then(|m| m.mipmap_dimensions(b))             *)

\* Marks the first call of a chain.
Root == [kind |-> "root"]

\* Shapes the chains start from: every width and height, a few depths.
ChainDimensions ==
    {Dim1d(w, l) : w \in U32, l \in 1 .. MaxLayers}
    \cup {Dim2d(w, h, l) : w \in U32, h \in U32, l \in 1 .. MaxLayers}
    \cup {Dim3d(w, h, d) : w \in U32, h \in U32, d \in Counts}

InitChain ==
    /\ build \in Builds
    /\ \E d \in ChainDimensions, a \in Levels :
          call = [fn |-> "mipmap_dimensions", self |-> d, level |-> a, first |-> Root]
    /\ ret = Pending

\* and_then: the level b of the shape the first call returned.
AndThen ==
    /\ call.fn = "mipmap_dimensions"
    /\ call.first = Root
    /\ ret.kind = "Some"
    /\ \E b \in Levels :
          call' = [fn |-> "mipmap_dimensions", self |-> ret.value, level |-> b,
                   first |-> [self |-> call.self, level |-> call.level]]
    /\ ret' = Pending
    /\ UNCHANGED build

NextChain == MipmapDimensions \/ AndThen

SpecChain == InitChain /\ [][NextChain]_vars

----------------------------------------------------------------------------
(* C14 *)

FirstDone == Done /\ call.fn = "mipmap_dimensions" /\ call.first = Root

SecondDone == Done /\ call.fn = "mipmap_dimensions" /\ call.first # Root

AxisNotLarger(m, d) ==
    width(m) <= width(d) /\ height(m) <= height(d) /\ depth(m) <= depth(d)

\* C14: for axes >= 1, level b of level a of d is level a + b of d, None
\* included; so level a has max_mipmaps() - a levels, no axis grows with the
\* level, and the last level max_mipmaps() - 1 is 1 on every axis.
C14_ChainComposes ==
    /\ (SecondDone /\ AxesAtLeastOne(call.first.self)) =>
          ret = mipmap_dimensions(build, call.first.self,
                                  call.first.level + call.level)
    /\ (FirstDone /\ AxesAtLeastOne(call.self) /\ ret = None) =>
          \A b \in Levels :
              mipmap_dimensions(build, call.self, call.level + b) = None
    /\ (FirstDone /\ AxesAtLeastOne(call.self) /\ ret.kind = "Some") =>
          /\ max_mipmaps(ret.value) = max_mipmaps(call.self) - call.level
          /\ AxisNotLarger(ret.value, call.self)
          /\ call.level >= 1 =>
                AxisNotLarger(ret.value,
                              mipmap_dimensions(build, call.self, call.level - 1).value)
          /\ call.level = max_mipmaps(call.self) - 1 =>
                (width(ret.value) = 1 /\ height(ret.value) = 1 /\ depth(ret.value) = 1)

\* Level 2 of level 1 of an 11x7 image with two layers: 1x1, as its level 3.
C14_Witness ==
    /\ SecondDone
    /\ call.first = [self |-> Dim2d(11, 7, 2), level |-> 1]
    /\ call.self = Dim2d(5, 3, 2) /\ call.level = 2
    /\ ret = Some(Dim2d(1, 1, 2))

\* A chain that ends in None: level 3 of level 2 of a 9x9x9 image, which has
\* four levels.
C14_WitnessNone ==
    /\ SecondDone
    /\ call.first = [self |-> Dim3d(9, 9, 3), level |-> 2]
    /\ call.level = 3
    /\ ret = None

=============================================================================
